---- MODULE Spec2Model ----
(***************************************************************************)
(* Model of the video-generation core of the goblina content server:      *)
(* size negotiation (mapToValidSoraSize), the POST /api/generate handler   *)
(* with its temporary files, the GET /api/status/:id retry loop, the      *)
(* GET /api/download/:id and POST /api/remix handlers, and the password    *)
(* protection (requireAuth, login, logout, status) with route dispatch.    *)
(*                                                                         *)
(* A size string such as '720x1280' is modelled as the sequence of the     *)
(* pieces that String.split('x') yields, <<"720", "1280">>; Number() is    *)
(* modelled by NumberOf, a table from pieces to numbers or NaN.            *)
(* Ratios are IEEE doubles in the program; here they are exact rationals   *)
(* n/d.  On every input of SizeInputs the double computation and the exact *)
(* one select the same catalog entry.                                      *)
(***************************************************************************)
EXTENDS Integers, Sequences, FiniteSets, TLC

\* ------------------------------------------------------------------------
\* Bounds of the model
\* ------------------------------------------------------------------------
MaxSmallDim == 6

\* Date.now() runs from 1 to MaxClock
MaxClock == 2

\* ------------------------------------------------------------------------
\* Size negotiation
\* ------------------------------------------------------------------------

\* Widths and heights that occur in requests and images of the model.
Dims ==
  (1..MaxSmallDim) \cup
  {288, 337, 720, 1000, 1024, 1080, 1100, 1280, 1440, 1792, 1920, 2560}

\* The pieces a size string can be split into: decimal numerals, a zero,
\* a negative numeral, the empty piece and a non-numeric piece.
Numerals == Dims \cup {0, -720}

Pieces == {ToString(n) : n \in Numerals} \cup {"", "bogus"}

\* Number(piece): a decimal numeral gives its value, '' gives 0, anything
\* else gives NaN.
NumberOf(s) ==
  IF \E n \in Numerals : ToString(n) = s
  THEN [nan |-> FALSE, val |-> CHOOSE n \in Numerals : ToString(n) = s]
  ELSE IF s = "" THEN [nan |-> FALSE, val |-> 0]
  ELSE [nan |-> TRUE, val |-> 0]

\* const [width, height] = requestedSize.split('x').map(Number):
\* a missing element is undefined, which is falsy like NaN.
NumberAt(parts, i) ==
  IF i <= Len(parts) THEN NumberOf(parts[i]) ELSE [nan |-> TRUE, val |-> 0]

\* !x for a number x
Falsy(x) == x.nan \/ x.val = 0

Abs(x) == IF x < 0 THEN -x ELSE x

VALID_SORA_SIZES ==
  << [width |-> 720,  height |-> 1280, rnum |-> 9,  rden |-> 16, name |-> <<"720", "1280">>],
     [width |-> 1280, height |-> 720,  rnum |-> 16, rden |-> 9,  name |-> <<"1280", "720">>],
     [width |-> 1024, height |-> 1792, rnum |-> 9,  rden |-> 16, name |-> <<"1024", "1792">>],
     [width |-> 1792, height |-> 1024, rnum |-> 16, rden |-> 9,  name |-> <<"1792", "1024">>] >>

CatalogNames == {VALID_SORA_SIZES[i].name : i \in 1..Len(VALID_SORA_SIZES)}

\* Math.abs(requestedRatio - validSize.ratio) as the rational n/d, d > 0
RatioDiff(width, height, validSize) ==
  [n |-> Abs(width * validSize.rden - validSize.rnum * height),
   d |-> Abs(height) * validSize.rden]

\* a <= b in place of a < b
RatLessOrEqual(a, b) == a.n * b.d <= b.n * a.d

\* a < b for rationals with positive denominators
RatLess(a, b) == a.n * b.d < b.n * a.d

\* The for-loop of mapToValidSoraSize from catalog position i on.
RECURSIVE MapLoop(_, _, _, _, _)
MapLoop(i, width, height, bestMatch, smallestDiff) ==
  IF i > Len(VALID_SORA_SIZES) THEN bestMatch
  ELSE
    LET validSize == VALID_SORA_SIZES[i]
        validIsPortrait == validSize.height > validSize.width
        isPortrait == height > width
        diff == RatioDiff(width, height, validSize)
    IN IF validIsPortrait # isPortrait
       THEN MapLoop(i + 1, width, height, bestMatch, smallestDiff)
       ELSE IF RatLess(diff, smallestDiff)
            THEN MapLoop(i + 1, width, height, validSize, diff)
            ELSE MapLoop(i + 1, width, height, bestMatch, smallestDiff)

\* mapToValidSoraSize passing a parsable size through unchanged
mapToValidSoraSizeRaw(requestedSize) ==
  LET width == NumberAt(requestedSize, 1)
      height == NumberAt(requestedSize, 2)
  IN IF Falsy(width) \/ Falsy(height)
     THEN <<"720", "1280">>
     ELSE <<requestedSize[1], requestedSize[2]>>

\* mapToValidSoraSize without the default for an unparsable size
mapToValidSoraSizeNoFallback(requestedSize) ==
  LET width == NumberAt(requestedSize, 1)
      height == NumberAt(requestedSize, 2)
  IN IF Falsy(width) \/ Falsy(height)
     THEN requestedSize
     ELSE (MapLoop(1, width.val, height.val, VALID_SORA_SIZES[1],
                   RatioDiff(width.val, height.val, VALID_SORA_SIZES[1]))).name

mapToValidSoraSize(requestedSize) ==
  LET width == NumberAt(requestedSize, 1)
      height == NumberAt(requestedSize, 2)
  IN IF Falsy(width) \/ Falsy(height)
     THEN <<"720", "1280">>
     ELSE (MapLoop(1, width.val, height.val, VALID_SORA_SIZES[1],
                   RatioDiff(width.val, height.val, VALID_SORA_SIZES[1]))).name

\* `${w}x${h}`
SizeString(w, h) == <<ToString(w), ToString(h)>>

\* Size strings handed to the negotiator.
SizeInputs ==
  {<<a, b>> : a \in Pieces, b \in Pieces}
    \cup {<<a>> : a \in {"720", "bogus", ""}}
    \cup {<<"720", "1280", "5">>}

\* ------------------------------------------------------------------------
\* State
\* ------------------------------------------------------------------------
VARIABLES
  hasOpenAI,  \* !!process.env.OPENAI_API_KEY, fixed when the process starts
  nSize,      \* the size string given to mapToValidSoraSize
  nStage,     \* "off" | "input" | "mapped" | "remapped"
  nTarget,    \* targetSize: the result of the first mapping
  nSent,      \* validSize: the result of mapping targetSize again
  pPc,        \* per poll call: "idle" | "fetching" | "sleeping" | "done"
  pAttempt,   \* per poll call: the loop variable attempt
  pLastError, \* per poll call: the local lastError
  pTrace,     \* per poll call: the remote GETs, replies and sleeps so far
  pResp,      \* per poll call: the responses sent to the caller
  clock,      \* Date.now()
  disk,       \* the uploads directory: path -> content of the file
  gPending,   \* fs.unlink calls issued and not yet carried out
  gPc,        \* per generate request: position of its handler
  gIn,        \* per generate request: req.file, req.body and the image
  gLocal,     \* per generate request: the handler's local variables
  gDeletes,   \* per generate request: the paths it called fs.unlink on
  gSent,      \* per generate request: creation requests sent to the remote
  gReply,     \* per generate request: the outcomes of its creation requests
  gResp,      \* per generate request: the responses sent to the caller
  fPc,        \* per download or remix call: position of its handler
  fIn,        \* per download or remix call: req.query and req.body
  fSent,      \* per download or remix call: requests sent to the remote
  fReply,     \* per download or remix call: the remote outcomes received
  fResp,      \* per download or remix call: the responses sent to the caller
  hasPasswordProtection, \* !!process.env.APP_PASSWORD
  hasDatabase,  \* !!process.env.DATABASE_URL
  sessions,     \* the session store: token -> { created }
  wNow,         \* Date.now() as seen by the auth code
  wIssued,      \* tokens issued by a successful login -> time of issue
  wLoggedOut,   \* issued tokens that were since presented to a logout
  wLast         \* the latest web request and what was answered

nvars == <<nSize, nStage, nTarget, nSent>>

pvars == <<pPc, pAttempt, pLastError, pTrace, pResp>>

gvars == <<clock, disk, gPending, gPc, gIn, gLocal, gDeletes, gSent, gReply, gResp>>

fvars == <<fPc, fIn, fSent, fReply, fResp>>

wvars == <<hasPasswordProtection, hasDatabase, sessions, wNow, wIssued, wLoggedOut, wLast>>

vars == <<hasOpenAI, nSize, nStage, nTarget, nSent,
          pPc, pAttempt, pLastError, pTrace, pResp,
          clock, disk, gPending, gPc, gIn, gLocal, gDeletes, gSent, gReply, gResp,
          fPc, fIn, fSent, fReply, fResp,
          hasPasswordProtection, hasDatabase, sessions, wNow, wIssued, wLoggedOut, wLast>>

NoSize == <<>>

\* A size string is truthy unless it is absent or empty
SizeGiven(size) == size # NoSize /\ size # <<"">>

\* The negotiator is not exercised
NOff ==
  /\ nSize = NoSize
  /\ nStage = "off"
  /\ nTarget = NoSize
  /\ nSent = NoSize

NInit ==
  /\ nSize \in SizeInputs
  /\ nStage = "input"
  /\ nTarget = NoSize
  /\ nSent = NoSize

\* const targetSize = mapToValidSoraSize(requestedSize)
Negotiate ==
  /\ nStage = "input"
  /\ nTarget' = mapToValidSoraSize(nSize)
  /\ nStage' = "mapped"
  /\ UNCHANGED <<nSize, nSent, hasOpenAI, pvars, gvars, fvars, wvars>>

\* callOpenAIVideoCreate: const validSize = mapToValidSoraSize(size || '720x1280')
NegotiateAgain ==
  /\ nStage = "mapped"
  /\ nSent' = mapToValidSoraSize(nTarget)
  /\ nStage' = "remapped"
  /\ UNCHANGED <<nSize, nTarget, hasOpenAI, pvars, gvars, fvars, wvars>>

NNext == Negotiate \/ NegotiateAgain

\* ------------------------------------------------------------------------
\* GET /api/status/:id
\* ------------------------------------------------------------------------
PollCalls == {"p1", "p2"}

\* The retry budget of five that docs/ERROR_HANDLING.md shows ("Retry (1/5)")
maxRetriesFive == 5

maxRetries == 3

\* What one remote status GET can come back with: a success with a JSON or
\* an unparseable body, an HTTP error status with a JSON or a non-JSON
\* body, or a network error thrown by fetch with an error code.
RemoteStatuses == {400, 404, 429, 500, 502, 503}

NetCodes == {"ECONNRESET", "ETIMEDOUT", "ENOTFOUND"}

NoOutcome == [kind |-> "none", status |-> 0, body |-> "", code |-> ""]

Outcomes ==
  {[kind |-> "ok", status |-> 200, body |-> b, code |-> ""] : b \in {"json", "text"}}
    \cup {[kind |-> "http", status |-> st, body |-> b, code |-> ""] :
            st \in RemoteStatuses, b \in {"json", "text"}}
    \cup {[kind |-> "net", status |-> 0, body |-> "", code |-> c] : c \in NetCodes}

\* Entries of pTrace
GetEv(n) == [ev |-> "get", n |-> n, ms |-> 0, o |-> NoOutcome]
ReplyEv(n, o) == [ev |-> "reply", n |-> n, ms |-> 0, o |-> o]
SleepEv(n, ms) == [ev |-> "sleep", n |-> n, ms |-> ms, o |-> NoOutcome]

\* Responses to the caller: retryable is "true" or "absent"
Response(status, retryable, via) ==
  [status |-> status, retryable |-> retryable, via |-> via]

\* response.status === 500 || response.status === 502 || response.status === 503
IsServerError(status) == status = 500 \/ status = 502 \/ status = 503

\* IsNetworkRetryCode without the ETIMEDOUT case
IsNetworkRetryCodeResetOnly(code) == code = "ECONNRESET"

\* err.code === 'ECONNRESET' || err.code === 'ETIMEDOUT'
IsNetworkRetryCode(code) == code = "ECONNRESET" \/ code = "ETIMEDOUT"

\* 1000 * attempt
BackoffDelay(attempt) == 1000 * attempt

\* ThrownError where a 5xx with a JSON body sleeps and continues on the
\* last attempt as well
ThrownErrorNoFinalThrow(o, attempt) ==
  CASE o.kind = "net" -> [msg |-> "fetch", code |-> o.code]
    [] o.kind = "http" /\ o.body # "json" -> [msg |-> "syntax", code |-> ""]
    [] o.kind = "http" /\ o.body = "json" /\ IsServerError(o.status)
         -> [msg |-> "none", code |-> ""]
    [] o.kind = "http" /\ o.body = "json" -> [msg |-> "retrieve failed", code |-> ""]
    [] o.kind = "ok" /\ o.body # "json" -> [msg |-> "invalid json", code |-> ""]
    [] OTHER -> [msg |-> "none", code |-> ""]

\* The error that reaches the catch block for outcome o, or "none" when the
\* try block does not throw: fetch rejects with err.code; JSON.parse throws
\* a SyntaxError on a non-JSON error body; a 5xx with attempts left does
\* not throw; any other error status throws; response.json() throws on an
\* unparseable success body.
ThrownError(o, attempt) ==
  CASE o.kind = "net" -> [msg |-> "fetch", code |-> o.code]
    [] o.kind = "http" /\ o.body # "json" -> [msg |-> "syntax", code |-> ""]
    [] o.kind = "http" /\ o.body = "json" /\ IsServerError(o.status)
         /\ attempt < maxRetries -> [msg |-> "none", code |-> ""]
    [] o.kind = "http" /\ o.body = "json" -> [msg |-> "retrieve failed", code |-> ""]
    [] o.kind = "ok" /\ o.body # "json" -> [msg |-> "invalid json", code |-> ""]
    [] OTHER -> [msg |-> "none", code |-> ""]

NoError == [msg |-> "none", code |-> ""]

POff ==
  /\ pPc = [c \in PollCalls |-> "off"]
  /\ pAttempt = [c \in PollCalls |-> 0]
  /\ pLastError = [c \in PollCalls |-> NoError]
  /\ pTrace = [c \in PollCalls |-> <<>>]
  /\ pResp = [c \in PollCalls |-> <<>>]

PInit ==
  /\ pPc = [c \in PollCalls |-> IF c = "p1" THEN "idle" ELSE "off"]
  /\ pAttempt = [c \in PollCalls |-> 0]
  /\ pLastError = [c \in PollCalls |-> NoError]
  /\ pTrace = [c \in PollCalls |-> <<>>]
  /\ pResp = [c \in PollCalls |-> <<>>]

\* PollStart with attempt as one variable shared by all calls
PollStartShared(c) ==
  /\ pPc[c] = "idle"
  /\ IF ~hasOpenAI
     THEN /\ pResp' = [pResp EXCEPT ![c] = Append(@, Response(503, "absent", "notconfigured"))]
          /\ pPc' = [pPc EXCEPT ![c] = "done"]
          /\ UNCHANGED <<pAttempt, pTrace>>
     ELSE /\ pAttempt' = [d \in PollCalls |-> 1]
          /\ pTrace' = [pTrace EXCEPT ![c] = Append(@, GetEv(1))]
          /\ pPc' = [pPc EXCEPT ![c] = "fetching"]
          /\ UNCHANGED pResp
  /\ UNCHANGED <<pLastError, hasOpenAI, nvars, gvars, fvars, wvars>>

\* The handler is entered: the configuration check, then the first
\* iteration of the loop issues its fetch.
PollStart(c) ==
  /\ pPc[c] = "idle"
  /\ IF ~hasOpenAI
     THEN /\ pResp' = [pResp EXCEPT ![c] = Append(@, Response(503, "absent", "notconfigured"))]
          /\ pPc' = [pPc EXCEPT ![c] = "done"]
          /\ UNCHANGED <<pAttempt, pTrace>>
     ELSE /\ pAttempt' = [pAttempt EXCEPT ![c] = 1]
          /\ pTrace' = [pTrace EXCEPT ![c] = Append(@, GetEv(1))]
          /\ pPc' = [pPc EXCEPT ![c] = "fetching"]
          /\ UNCHANGED pResp
  /\ UNCHANGED <<pLastError, hasOpenAI, nvars, gvars, fvars, wvars>>

\* NextIteration with the loop test attempt < maxRetries
NextIterationShort(c, trace) ==
  IF pAttempt[c] + 1 < maxRetries
  THEN /\ pAttempt' = [pAttempt EXCEPT ![c] = @ + 1]
       /\ pTrace' = [pTrace EXCEPT ![c] = Append(trace, GetEv(pAttempt[c] + 1))]
       /\ pPc' = [pPc EXCEPT ![c] = "fetching"]
       /\ UNCHANGED pResp
  ELSE /\ pAttempt' = [pAttempt EXCEPT ![c] = @ + 1]
       /\ pTrace' = [pTrace EXCEPT ![c] = trace]
       /\ pResp' = [pResp EXCEPT ![c] = Append(@, Response(500, "true", "fallback"))]
       /\ pPc' = [pPc EXCEPT ![c] = "done"]

\* The loop header after `continue` or after the catch block fell through:
\* attempt++, then either the next fetch or the fallback response after
\* the loop.
NextIteration(c, trace) ==
  IF pAttempt[c] + 1 <= maxRetries
  THEN /\ pAttempt' = [pAttempt EXCEPT ![c] = @ + 1]
       /\ pTrace' = [pTrace EXCEPT ![c] = Append(trace, GetEv(pAttempt[c] + 1))]
       /\ pPc' = [pPc EXCEPT ![c] = "fetching"]
       /\ UNCHANGED pResp
  ELSE /\ pAttempt' = [pAttempt EXCEPT ![c] = @ + 1]
       /\ pTrace' = [pTrace EXCEPT ![c] = trace]
       /\ pResp' = [pResp EXCEPT ![c] = Append(@, Response(500, "true", "fallback"))]
       /\ pPc' = [pPc EXCEPT ![c] = "done"]

\* The remote GET of the current attempt settles with outcome o and the
\* handler runs up to its next await or its return.
RemoteReply(c, o) ==
  /\ pPc[c] = "fetching"
  /\ LET attempt == pAttempt[c]
         err == ThrownError(o, attempt)
         trace == Append(pTrace[c], ReplyEv(attempt, o))
     IN IF err.msg = "none"
        THEN IF o.kind = "ok"
             THEN \* return res.json(json)
                  /\ pResp' = [pResp EXCEPT ![c] = Append(@, Response(200, "absent", "ok"))]
                  /\ pPc' = [pPc EXCEPT ![c] = "done"]
                  /\ pTrace' = [pTrace EXCEPT ![c] = trace]
                  /\ UNCHANGED <<pAttempt, pLastError>>
             ELSE \* 5xx with attempts left: lastError is set, then the sleep
                  /\ pLastError' = [pLastError EXCEPT ![c] = [msg |-> "server error", code |-> ""]]
                  /\ pTrace' = [pTrace EXCEPT ![c] =
                                  Append(trace, SleepEv(attempt, BackoffDelay(attempt)))]
                  /\ pPc' = [pPc EXCEPT ![c] = "sleeping"]
                  /\ UNCHANGED <<pAttempt, pResp>>
        ELSE \* catch (err)
             /\ pLastError' = [pLastError EXCEPT ![c] = err]
             /\ IF attempt < maxRetries /\ IsNetworkRetryCode(err.code)
                THEN /\ pTrace' = [pTrace EXCEPT ![c] =
                                     Append(trace, SleepEv(attempt, BackoffDelay(attempt)))]
                     /\ pPc' = [pPc EXCEPT ![c] = "sleeping"]
                     /\ UNCHANGED <<pAttempt, pResp>>
                ELSE IF attempt = maxRetries
                     THEN /\ pResp' = [pResp EXCEPT ![c] = Append(@, Response(500, "true", "catch"))]
                          /\ pPc' = [pPc EXCEPT ![c] = "done"]
                          /\ pTrace' = [pTrace EXCEPT ![c] = trace]
                          /\ UNCHANGED pAttempt
                     ELSE NextIteration(c, trace)
  /\ UNCHANGED <<hasOpenAI, nvars, gvars, fvars, wvars>>

\* The setTimeout of the backoff fires: `continue`
SleepDone(c) ==
  /\ pPc[c] = "sleeping"
  /\ NextIteration(c, pTrace[c])
  /\ UNCHANGED <<pLastError, hasOpenAI, nvars, gvars, fvars, wvars>>

PNext ==
  \/ PollStart("p1")
  \/ \E o \in Outcomes : RemoteReply("p1", o)
  \/ SleepDone("p1")

\* ------------------------------------------------------------------------
\* POST /api/generate
\* ------------------------------------------------------------------------
GenReqs == {"g1", "g2"}

\* Paths in the uploads directory.  multer({dest}) names an upload with a
\* random token of its own (field up); a fetched copy is
\* fetched_<Date.now()>.<ext>; a resized derivative is
\* resized_<Date.now()>_<basename of the source path>.
NoPath == [kind |-> "none", up |-> "", ts |-> 0, ext |-> "", rts |-> 0]

UploadPath(r) == [kind |-> "upload", up |-> r, ts |-> 0, ext |-> "", rts |-> 0]

FetchedPath(now, ext) == [kind |-> "fetched", up |-> "", ts |-> now, ext |-> ext, rts |-> 0]

ResizedPath(now, imagePath) ==
  [imagePath EXCEPT !.kind = "resized_" \o imagePath.kind, !.rts = now]

\* Images a caller can send: readable ones with their pixel size and an
\* unreadable one.
Images ==
  {[w |-> 720, h |-> 1280, ok |-> TRUE],
   [w |-> 1024, h |-> 1792, ok |-> TRUE],
   [w |-> 0, h |-> 0, ok |-> FALSE]}

\* req.body.size: absent, or a size string
BodySizes == {NoSize, <<"1024", "1792">>}

\* File extensions the fetched content type leads to
Exts == {"jpg", "png"}

GenInputs ==
  [file : BOOLEAN, imageUrl : BOOLEAN, size : BodySizes, img : Images]

NoInput == [file |-> FALSE, imageUrl |-> FALSE, size |-> NoSize,
            img |-> [w |-> 0, h |-> 0, ok |-> FALSE]]

NoLocal ==
  [imagePath |-> NoPath, tempImagePath |-> NoPath, processedImagePath |-> NoPath,
   imageWidth |-> 0, imageHeight |-> 0, targetSize |-> NoSize]

\* fs.writeFileSync / sharp().toFile(): the file is created or replaced
WriteFile(d, path, content) ==
  [q \in DOMAIN d \cup {path} |-> IF q = path THEN content ELSE d[q]]

\* the effect of a completed fs.unlink; a missing file is ignored
RemoveFile(d, path) == [q \in DOMAIN d \ {path} |-> d[q]]

\* sharp(path) can decode the file
Readable(d, path) == path \in DOMAIN d /\ d[path].ok

\* SuccessCleanup without the unlink of the URL-fetched copy
SuccessCleanupNoTemp(in, loc, r) ==
  (IF in.file THEN <<UploadPath(r)>> ELSE <<>>)
    \o (IF loc.processedImagePath # NoPath /\ loc.processedImagePath # loc.imagePath
        THEN <<loc.processedImagePath>> ELSE <<>>)

\* SuccessCleanup without the test processedImagePath !== imagePath
SuccessCleanupDouble(in, loc, r) ==
  (IF in.file THEN <<UploadPath(r)>> ELSE <<>>)
    \o (IF loc.tempImagePath # NoPath THEN <<loc.tempImagePath>> ELSE <<>>)
    \o (IF loc.processedImagePath # NoPath THEN <<loc.processedImagePath>> ELSE <<>>)

\* The unlink calls of the success path, in program order
SuccessCleanup(in, loc, r) ==
  (IF in.file THEN <<UploadPath(r)>> ELSE <<>>)
    \o (IF loc.tempImagePath # NoPath THEN <<loc.tempImagePath>> ELSE <<>>)
    \o (IF loc.processedImagePath # NoPath /\ loc.processedImagePath # loc.imagePath
        THEN <<loc.processedImagePath>> ELSE <<>>)

\* The unlink calls of the catch block, in program order
CatchCleanup(in, loc, r) ==
  (IF in.file THEN <<UploadPath(r)>> ELSE <<>>)
    \o (IF loc.tempImagePath # NoPath THEN <<loc.tempImagePath>> ELSE <<>>)
    \o (IF /\ loc.processedImagePath # NoPath
           /\ (~in.file \/ loc.processedImagePath # UploadPath(r))
           /\ loc.processedImagePath # loc.tempImagePath
        THEN <<loc.processedImagePath>> ELSE <<>>)

SeqRange(q) == {q[i] : i \in 1..Len(q)}

GOff ==
  /\ clock = 1
  /\ disk = << >>
  /\ gPending = {}
  /\ gPc = [r \in GenReqs |-> "off"]
  /\ gIn = [r \in GenReqs |-> NoInput]
  /\ gLocal = [r \in GenReqs |-> NoLocal]
  /\ gDeletes = [r \in GenReqs |-> <<>>]
  /\ gSent = [r \in GenReqs |-> <<>>]
  /\ gReply = [r \in GenReqs |-> <<>>]
  /\ gResp = [r \in GenReqs |-> <<>>]

GInit ==
  /\ clock = 1
  /\ disk = << >>
  /\ gPending = {}
  /\ gPc = [r \in GenReqs |-> "new"]
  /\ gIn = [r \in GenReqs |-> NoInput]
  /\ gLocal = [r \in GenReqs |-> NoLocal]
  /\ gDeletes = [r \in GenReqs |-> <<>>]
  /\ gSent = [r \in GenReqs |-> <<>>]
  /\ gReply = [r \in GenReqs |-> <<>>]
  /\ gResp = [r \in GenReqs |-> <<>>]

\* res.status(s).json(...) and return
Respond(r, status) ==
  /\ gResp' = [gResp EXCEPT ![r] = Append(@, [status |-> status])]
  /\ gPc' = [gPc EXCEPT ![r] = "done"]

\* fs.unlink(path, () => {}) for each path of paths
IssueUnlinks(r, paths) ==
  /\ gDeletes' = [gDeletes EXCEPT ![r] = @ \o paths]
  /\ gPending' = gPending \cup {[path |-> q, by |-> r] : q \in SeqRange(paths)}

\* catch (err): clean up, answer 500
Catch(r, loc) ==
  /\ IssueUnlinks(r, CatchCleanup(gIn[r], loc, r))
  /\ Respond(r, 500)
  /\ gLocal' = [gLocal EXCEPT ![r] = loc]
  /\ UNCHANGED gSent

\* EnterCreate mapping the default size instead of the size it is given
EnterCreateDefaultSize(r, loc, d) ==
  IF loc.processedImagePath \in DOMAIN d
  THEN /\ gSent' = [gSent EXCEPT ![r] =
                      Append(@, [size |-> mapToValidSoraSize(<<"720", "1280">>),
                                 w |-> d[loc.processedImagePath].w,
                                 h |-> d[loc.processedImagePath].h])]
       /\ gPc' = [gPc EXCEPT ![r] = "submitting"]
       /\ gLocal' = [gLocal EXCEPT ![r] = loc]
       /\ UNCHANGED <<gDeletes, gPending, gResp>>
  ELSE Catch(r, loc)

\* callOpenAIVideoCreate up to its await: the size is mapped once more,
\* fs.statSync(imagePath) throws when the file is gone, then the creation
\* request is sent.
EnterCreate(r, loc, d) ==
  IF loc.processedImagePath \in DOMAIN d
  THEN /\ gSent' = [gSent EXCEPT ![r] =
                      Append(@, [size |-> mapToValidSoraSize(
                                            IF SizeGiven(loc.targetSize) THEN loc.targetSize
                                            ELSE <<"720", "1280">>),
                                 w |-> d[loc.processedImagePath].w,
                                 h |-> d[loc.processedImagePath].h])]
       /\ gPc' = [gPc EXCEPT ![r] = "submitting"]
       /\ gLocal' = [gLocal EXCEPT ![r] = loc]
       /\ UNCHANGED <<gDeletes, gPending, gResp>>
  ELSE Catch(r, loc)

\* The request arrives: multer has stored the uploaded file, the handler
\* runs its checks and reaches its first await.
GenerateStart(r, in) ==
  /\ gPc[r] = "new"
  /\ gIn' = [gIn EXCEPT ![r] = in]
  /\ disk' = IF in.file THEN WriteFile(disk, UploadPath(r), in.img) ELSE disk
  /\ IF ~hasOpenAI
     THEN Respond(r, 503) /\ UNCHANGED gLocal
     ELSE IF ~in.file /\ ~in.imageUrl
          THEN Respond(r, 400) /\ UNCHANGED gLocal
          ELSE IF in.file
               THEN /\ gLocal' = [gLocal EXCEPT ![r].imagePath = UploadPath(r)]
                    /\ gPc' = [gPc EXCEPT ![r] = "metadata"]
                    /\ UNCHANGED gResp
               ELSE /\ gPc' = [gPc EXCEPT ![r] = "fetching"]
                    /\ UNCHANGED <<gLocal, gResp>>
  /\ UNCHANGED <<clock, gPending, gDeletes, gSent, gReply, hasOpenAI, nvars, pvars, fvars, wvars>>

\* fetch(imageUrl) and arrayBuffer() have settled.  fetched is FALSE when
\* the fetch failed or answered a non-success status; written tells whether
\* writeFileSync succeeded; left tells whether a failed write left a file.
FetchDone(r, fetched, ext, written, left) ==
  /\ gPc[r] = "fetching"
  /\ IF ~fetched
     THEN /\ Respond(r, 400)
          /\ UNCHANGED <<gLocal, disk>>
     ELSE LET tempImagePath == FetchedPath(clock, ext)
          IN IF written
             THEN /\ disk' = WriteFile(disk, tempImagePath, gIn[r].img)
                  /\ gLocal' = [gLocal EXCEPT ![r].tempImagePath = tempImagePath,
                                              ![r].imagePath = tempImagePath]
                  /\ gPc' = [gPc EXCEPT ![r] = "metadata"]
                  /\ UNCHANGED gResp
             ELSE /\ disk' = IF left
                             THEN WriteFile(disk, tempImagePath, [w |-> 0, h |-> 0, ok |-> FALSE])
                             ELSE disk
                  /\ gLocal' = [gLocal EXCEPT ![r].tempImagePath = tempImagePath]
                  /\ Respond(r, 400)
  /\ UNCHANGED <<clock, gPending, gIn, gDeletes, gSent, gReply, hasOpenAI, nvars, pvars, fvars, wvars>>

\* MetadataDone resizing only when both dimensions differ
MetadataDoneBothDiffer(r) ==
  /\ gPc[r] = "metadata"
  /\ LET loc == gLocal[r]
     IN IF ~Readable(disk, loc.imagePath)
        THEN Catch(r, loc)
        ELSE LET imageWidth == disk[loc.imagePath].w
                 imageHeight == disk[loc.imagePath].h
                 requestedSize ==
                   IF SizeGiven(gIn[r].size) THEN gIn[r].size
                   ELSE IF imageWidth # 0 /\ imageHeight # 0
                        THEN SizeString(imageWidth, imageHeight)
                        ELSE <<"720", "1280">>
                 targetSize == mapToValidSoraSize(requestedSize)
                 targetWidth == NumberOf(targetSize[1]).val
                 targetHeight == NumberOf(targetSize[2]).val
                 loc1 == [loc EXCEPT !.imageWidth = imageWidth,
                                     !.imageHeight = imageHeight,
                                     !.targetSize = targetSize]
             IN IF imageWidth # targetWidth /\ imageHeight # targetHeight
                THEN /\ gLocal' = [gLocal EXCEPT ![r] =
                                     [loc1 EXCEPT !.processedImagePath =
                                                    ResizedPath(clock, loc.imagePath)]]
                     /\ gPc' = [gPc EXCEPT ![r] = "resizing"]
                     /\ UNCHANGED <<gDeletes, gPending, gSent, gResp>>
                ELSE EnterCreate(r, [loc1 EXCEPT !.processedImagePath = loc.imagePath], disk)
  /\ UNCHANGED <<clock, disk, gIn, gReply, hasOpenAI, nvars, pvars, fvars, wvars>>

\* sharp(imagePath).metadata() has settled; the handler picks the target
\* size and either starts the resize or enters callOpenAIVideoCreate.
MetadataDone(r) ==
  /\ gPc[r] = "metadata"
  /\ LET loc == gLocal[r]
     IN IF ~Readable(disk, loc.imagePath)
        THEN Catch(r, loc)
        ELSE LET imageWidth == disk[loc.imagePath].w
                 imageHeight == disk[loc.imagePath].h
                 requestedSize ==
                   IF SizeGiven(gIn[r].size) THEN gIn[r].size
                   ELSE IF imageWidth # 0 /\ imageHeight # 0
                        THEN SizeString(imageWidth, imageHeight)
                        ELSE <<"720", "1280">>
                 targetSize == mapToValidSoraSize(requestedSize)
                 targetWidth == NumberOf(targetSize[1]).val
                 targetHeight == NumberOf(targetSize[2]).val
                 loc1 == [loc EXCEPT !.imageWidth = imageWidth,
                                     !.imageHeight = imageHeight,
                                     !.targetSize = targetSize]
             IN IF imageWidth # targetWidth \/ imageHeight # targetHeight
                THEN /\ gLocal' = [gLocal EXCEPT ![r] =
                                     [loc1 EXCEPT !.processedImagePath =
                                                    ResizedPath(clock, loc.imagePath)]]
                     /\ gPc' = [gPc EXCEPT ![r] = "resizing"]
                     /\ UNCHANGED <<gDeletes, gPending, gSent, gResp>>
                ELSE EnterCreate(r, [loc1 EXCEPT !.processedImagePath = loc.imagePath], disk)
  /\ UNCHANGED <<clock, disk, gIn, gReply, hasOpenAI, nvars, pvars, fvars, wvars>>

\* sharp(imagePath).resize(..., {fit: 'fill'}).toFile(processedImagePath)
\* has settled.  wrote is FALSE when the write failed; left tells whether a
\* failed write left a file.
ResizeDone(r, wrote, left) ==
  /\ gPc[r] = "resizing"
  /\ LET loc == gLocal[r]
         targetWidth == NumberOf(loc.targetSize[1]).val
         targetHeight == NumberOf(loc.targetSize[2]).val
     IN IF Readable(disk, loc.imagePath) /\ wrote
        THEN /\ disk' = WriteFile(disk, loc.processedImagePath,
                                  [w |-> targetWidth, h |-> targetHeight, ok |-> TRUE])
             /\ EnterCreate(r, loc, disk')
        ELSE /\ disk' = IF Readable(disk, loc.imagePath) /\ left
                        THEN WriteFile(disk, loc.processedImagePath,
                                       [w |-> 0, h |-> 0, ok |-> FALSE])
                        ELSE disk
             /\ Catch(r, loc)
  /\ UNCHANGED <<clock, gIn, gReply, hasOpenAI, nvars, pvars, fvars, wvars>>

\* The creation request has settled: on success the clean-up and
\* res.json(videoJob), otherwise the error is thrown into the catch block.
SubmitDone(r, ok) ==
  /\ gPc[r] = "submitting"
  /\ IF ok
     THEN /\ IssueUnlinks(r, SuccessCleanup(gIn[r], gLocal[r], r))
          /\ Respond(r, 200)
          /\ UNCHANGED <<gLocal, gSent>>
     ELSE Catch(r, gLocal[r])
  /\ gReply' = [gReply EXCEPT ![r] = Append(@, IF ok THEN "ok" ELSE "failed")]
  /\ UNCHANGED <<clock, disk, gIn, hasOpenAI, nvars, pvars, fvars, wvars>>

\* A pending fs.unlink is carried out.
UnlinkDone(u) ==
  /\ u \in gPending
  /\ gPending' = gPending \ {u}
  /\ disk' = RemoveFile(disk, u.path)
  /\ UNCHANGED <<clock, gPc, gIn, gLocal, gDeletes, gSent, gResp, gReply, hasOpenAI, nvars, pvars, fvars, wvars>>

\* A millisecond passes.
Tick ==
  /\ clock < MaxClock
  /\ clock' = clock + 1
  /\ UNCHANGED <<disk, gPending, gPc, gIn, gLocal, gDeletes, gSent, gResp,
                 gReply, hasOpenAI, nvars, pvars, fvars, wvars>>

GNext ==
  \/ \E r \in GenReqs, in \in GenInputs : GenerateStart(r, in)
  \/ \E r \in GenReqs, fetched \in BOOLEAN, ext \in Exts, written \in BOOLEAN, left \in BOOLEAN :
       FetchDone(r, fetched, ext, written, left)
  \/ \E r \in GenReqs : MetadataDone(r)
  \/ \E r \in GenReqs, wrote \in BOOLEAN, left \in BOOLEAN : ResizeDone(r, wrote, left)
  \/ \E r \in GenReqs, ok \in BOOLEAN : SubmitDone(r, ok)
  \/ \E u \in gPending : UnlinkDone(u)
  \/ Tick

\* ------------------------------------------------------------------------
\* GET /api/download/:id and POST /api/remix
\* ------------------------------------------------------------------------

DownloadCalls == {"d1"}

RemixCalls == {"x1"}

FwdCalls == DownloadCalls \cup RemixCalls

\* A query parameter or body field that is absent or empty
NoField == ""

\* req.query.variant of a download call
DownloadInputs ==
  [variant : {NoField, "video", "thumbnail"}, videoId : {NoField}, prompt : {NoField}]

\* req.body of a remix call
RemixInputs ==
  [variant : {NoField}, videoId : {NoField, "video_1"}, prompt : {NoField, "again"}]

NoFwdInput == [variant |-> NoField, videoId |-> NoField, prompt |-> NoField]

\* What a remote request comes back with: a 2xx response, another HTTP
\* status, or a rejected fetch (status 0).  ctype is the content-type
\* header, parses tells whether the body is JSON, text is the body of an
\* error response or the message of the fetch error.
HttpErrors == {400, 404, 500, 503}

ErrorTexts == {NoField, "upstream error"}

FailedReplies ==
  {[kind |-> "http", status |-> st, ctype |-> NoField, parses |-> FALSE, text |-> t] :
     st \in HttpErrors, t \in ErrorTexts}
    \cup {[kind |-> "network", status |-> 0, ctype |-> NoField, parses |-> FALSE,
            text |-> "fetch failed"]}

DownloadReplies ==
  {[kind |-> "ok", status |-> 200, ctype |-> t, parses |-> FALSE, text |-> NoField] :
     t \in {NoField, "video/mp4", "image/webp"}}
    \cup FailedReplies

RemixReplies ==
  {[kind |-> "ok", status |-> 200, ctype |-> "application/json", parses |-> j,
    text |-> NoField] :
     j \in BOOLEAN}
    \cup FailedReplies

\* The error came from the handler itself
NoDetails == [status |-> 0, text |-> NoField]

\* err.message of the error thrown for a failed remote request:
\* `... failed (${response.status}): ${errorText}`, or the fetch error
Details(reply) == [status |-> reply.status, text |-> reply.text]

\* res.status(status).json({ error, details }); upstream is what details
\* carries of the remote response
ErrorResponse(status, upstream) ==
  [status |-> status, ctype |-> "application/json", body |-> "error", upstream |-> upstream]

FRespond(c, response) ==
  /\ fResp' = [fResp EXCEPT ![c] = Append(@, response)]
  /\ fPc' = [fPc EXCEPT ![c] = "done"]

FSend(c, request) ==
  /\ fSent' = [fSent EXCEPT ![c] = Append(@, request)]
  /\ fPc' = [fPc EXCEPT ![c] = "fetching"]

\* The download request arrives and the handler reaches await fetch(...).
DownloadStart(c, in) ==
  /\ c \in DownloadCalls
  /\ fPc[c] = "new"
  /\ fIn' = [fIn EXCEPT ![c] = in]
  /\ IF ~hasOpenAI
     THEN FRespond(c, ErrorResponse(503, NoDetails)) /\ UNCHANGED fSent
     ELSE /\ FSend(c, [endpoint |-> "content",
                       variant |-> IF in.variant = NoField THEN "video" ELSE in.variant,
                       prompt |-> NoField])
          /\ UNCHANGED fResp
  /\ UNCHANGED <<fReply, hasOpenAI, nvars, pvars, gvars, wvars>>

\* DownloadReply asking the remote once more after a failure
DownloadReplyRetry(c, reply) ==
  /\ c \in DownloadCalls
  /\ fPc[c] = "fetching"
  /\ fReply' = [fReply EXCEPT ![c] = Append(@, reply)]
  /\ IF reply.kind = "ok"
     THEN /\ FRespond(c, [status |-> 200,
                          ctype |-> IF reply.ctype = NoField THEN "video/mp4" ELSE reply.ctype,
                          body |-> "artifact", upstream |-> NoDetails])
          /\ UNCHANGED fSent
     ELSE IF Len(fSent[c]) < 2
          THEN FSend(c, fSent[c][1]) /\ UNCHANGED fResp
          ELSE FRespond(c, ErrorResponse(500, Details(reply))) /\ UNCHANGED fSent
  /\ UNCHANGED <<fIn, hasOpenAI, nvars, pvars, gvars, wvars>>

\* DownloadReply without the default content type
DownloadReplyNoDefault(c, reply) ==
  /\ c \in DownloadCalls
  /\ fPc[c] = "fetching"
  /\ fReply' = [fReply EXCEPT ![c] = Append(@, reply)]
  /\ IF reply.kind = "ok"
     THEN FRespond(c, [status |-> 200,
                       ctype |-> reply.ctype,
                       body |-> "artifact", upstream |-> NoDetails])
     ELSE FRespond(c, ErrorResponse(500, Details(reply)))
  /\ UNCHANGED <<fIn, fSent, hasOpenAI, nvars, pvars, gvars, wvars>>

\* The content request has settled: the body is piped to the caller with
\* the upstream content type, or the error is thrown into the catch block.
DownloadReply(c, reply) ==
  /\ c \in DownloadCalls
  /\ fPc[c] = "fetching"
  /\ fReply' = [fReply EXCEPT ![c] = Append(@, reply)]
  /\ IF reply.kind = "ok"
     THEN FRespond(c, [status |-> 200,
                       ctype |-> IF reply.ctype = NoField THEN "video/mp4" ELSE reply.ctype,
                       body |-> "artifact", upstream |-> NoDetails])
     ELSE FRespond(c, ErrorResponse(500, Details(reply)))
  /\ UNCHANGED <<fIn, fSent, hasOpenAI, nvars, pvars, gvars, wvars>>

\* RemixStart refusing only a body that lacks both fields
RemixStartBothMissing(c, in) ==
  /\ c \in RemixCalls
  /\ fPc[c] = "new"
  /\ fIn' = [fIn EXCEPT ![c] = in]
  /\ IF ~hasOpenAI
     THEN FRespond(c, ErrorResponse(503, NoDetails)) /\ UNCHANGED fSent
     ELSE IF in.videoId = NoField /\ in.prompt = NoField
          THEN FRespond(c, ErrorResponse(400, NoDetails)) /\ UNCHANGED fSent
          ELSE /\ FSend(c, [endpoint |-> "remix", variant |-> NoField, prompt |-> in.prompt])
               /\ UNCHANGED fResp
  /\ UNCHANGED <<fReply, hasOpenAI, nvars, pvars, gvars, wvars>>

\* The remix request arrives and the handler reaches await fetch(...).
RemixStart(c, in) ==
  /\ c \in RemixCalls
  /\ fPc[c] = "new"
  /\ fIn' = [fIn EXCEPT ![c] = in]
  /\ IF ~hasOpenAI
     THEN FRespond(c, ErrorResponse(503, NoDetails)) /\ UNCHANGED fSent
     ELSE IF in.videoId = NoField \/ in.prompt = NoField
          THEN FRespond(c, ErrorResponse(400, NoDetails)) /\ UNCHANGED fSent
          ELSE /\ FSend(c, [endpoint |-> "remix", variant |-> NoField, prompt |-> in.prompt])
               /\ UNCHANGED fResp
  /\ UNCHANGED <<fReply, hasOpenAI, nvars, pvars, gvars, wvars>>

\* The remix request has settled: res.json(json), or the error (also the
\* one response.json() throws) goes to the catch block.
RemixReply(c, reply) ==
  /\ c \in RemixCalls
  /\ fPc[c] = "fetching"
  /\ fReply' = [fReply EXCEPT ![c] = Append(@, reply)]
  /\ IF reply.kind = "ok" /\ reply.parses
     THEN FRespond(c, [status |-> 200, ctype |-> "application/json",
                       body |-> "job", upstream |-> NoDetails])
     ELSE FRespond(c, ErrorResponse(500, Details(reply)))
  /\ UNCHANGED <<fIn, fSent, hasOpenAI, nvars, pvars, gvars, wvars>>

\* No download or remix call is made
FOff ==
  /\ fPc = [c \in FwdCalls |-> "off"]
  /\ fIn = [c \in FwdCalls |-> NoFwdInput]
  /\ fSent = [c \in FwdCalls |-> <<>>]
  /\ fReply = [c \in FwdCalls |-> <<>>]
  /\ fResp = [c \in FwdCalls |-> <<>>]

FInit ==
  /\ fPc = [c \in FwdCalls |-> "new"]
  /\ fIn = [c \in FwdCalls |-> NoFwdInput]
  /\ fSent = [c \in FwdCalls |-> <<>>]
  /\ fReply = [c \in FwdCalls |-> <<>>]
  /\ fResp = [c \in FwdCalls |-> <<>>]

FNext ==
  \/ \E c \in DownloadCalls, in \in DownloadInputs : DownloadStart(c, in)
  \/ \E c \in DownloadCalls, reply \in DownloadReplies : DownloadReply(c, reply)
  \/ \E c \in RemixCalls, in \in RemixInputs : RemixStart(c, in)
  \/ \E c \in RemixCalls, reply \in RemixReplies : RemixReply(c, reply)

\* ------------------------------------------------------------------------
\* Password protection and routing
\* ------------------------------------------------------------------------

\* Date.now() advances at most MaxWebTicks times
MaxWebTicks == 3

\* 24 * 60 * 60 * 1000
SessionTtl == 24 * 60 * 60 * 1000

\* Date.now() advances in steps of half the session lifetime
ClockStep == SessionTtl \div 2

\* Results of generateSessionToken
Tokens == {"t1", "t2"}

\* No session cookie, or an empty one
NoCookie == ""

\* Values of req.cookies.session: an issued or not yet issued token, a
\* value no login ever returns, or none
Cookies == Tokens \cup {"forged", NoCookie}

APP_PASSWORD == "secret"

\* req.body.password
Passwords == {APP_PASSWORD, "wrong", ""}

\* Request paths as their segments: '/api/videos/favorites' is
\* <<"api", "videos", "favorites">>
LoginPath == <<"api", "auth", "login">>

LoginPagePath == <<"login.html">>

WebPaths ==
  {LoginPath, LoginPagePath, <<"api", "auth", "logout">>, <<"api", "auth", "status">>,
   <<"index.html">>, <<"api", "generate">>, <<"api", "health">>,
   <<"api", "videos">>, <<"api", "videos", "favorites">>, <<"api", "videos", "v42">>}

Methods == {"GET", "POST"}

Route(method, pattern, handler) ==
  [method |-> method, pattern |-> pattern, handler |-> handler]

\* The routes registered before app.use(requireAuth), in order
EarlyRoutes ==
  << Route("POST", LoginPath, "login"),
     Route("POST", <<"api", "auth", "logout">>, "logout"),
     Route("GET", <<"api", "auth", "status">>, "authStatus"),
     Route("GET", LoginPagePath, "loginPage") >>

\* express.static and the routes registered after app.use(requireAuth),
\* in order; the database routes exist when hasDatabase holds
CoreRoutes ==
  << Route("GET", <<"index.html">>, "static"),
     Route("POST", <<"api", "generate">>, "generate"),
     Route("GET", <<"api", "status", ":id">>, "status"),
     Route("GET", <<"api", "download", ":id">>, "download"),
     Route("POST", <<"api", "remix">>, "remix"),
     Route("GET", <<"api", "health">>, "health") >>

DatabaseRoutes ==
  << Route("GET", <<"api", "videos">>, "listVideos"),
     Route("GET", <<"api", "videos", ":id">>, "getVideo"),
     Route("POST", <<"api", "videos", "save">>, "saveVideo"),
     Route("POST", <<"api", "videos", "favorite">>, "toggleFavorite"),
     Route("GET", <<"api", "storage", "status">>, "storageStatus"),
     Route("GET", <<"api", "videos", "favorites">>, "favorites") >>

LateRoutes(database) == IF database THEN CoreRoutes \o DatabaseRoutes ELSE CoreRoutes

\* A route matches a request of its method whose path has the pattern's
\* segments, a ':id' segment standing for any segment
Matches(route, method, path) ==
  /\ route.method = method
  /\ Len(route.pattern) = Len(path)
  /\ \A i \in 1..Len(path) : route.pattern[i] = ":id" \/ route.pattern[i] = path[i]

\* Express hands the request to the first matching route; none of the
\* handlers calls next()
FirstMatch(routes, method, path) ==
  LET hits == {i \in 1..Len(routes) : Matches(routes[i], method, path)}
  IN IF hits = {} THEN "none"
     ELSE routes[CHOOSE i \in hits : \A j \in hits : i <= j].handler

\* sessions.set(key, value) and sessions.delete(key)
MapSet(m, key, value) ==
  [k \in DOMAIN m \cup {key} |-> IF k = key THEN value ELSE m[k]]

MapDelete(m, key) == [k \in DOMAIN m \ {key} |-> m[k]]

\* SessionFresh with <= in place of <
SessionFreshInclusive(created, now) == now - created <= SessionTtl

\* Date.now() - session.created < 24 * 60 * 60 * 1000
SessionFresh(created, now) == now - created < SessionTtl

\* sessionToken && sessions.has(sessionToken)
HasSession(cookie) == cookie # NoCookie /\ cookie \in DOMAIN sessions

\* requireAuth: "next", or the response it sends
RequireAuth(path, cookie) ==
  IF ~hasPasswordProtection THEN "next"
  ELSE IF path = LoginPath \/ path = LoginPagePath THEN "next"
  ELSE IF HasSession(cookie) /\ SessionFresh(sessions[cookie].created, wNow) THEN "next"
  ELSE IF Len(path) >= 2 /\ path[1] = "api" THEN "401"
  ELSE "redirect"

\* The session store after requireAuth: an expired session is deleted
SessionsAfterAuth(path, cookie) ==
  IF /\ hasPasswordProtection
     /\ path # LoginPath
     /\ path # LoginPagePath
     /\ HasSession(cookie)
     /\ ~SessionFresh(sessions[cookie].created, wNow)
  THEN MapDelete(sessions, cookie)
  ELSE sessions

NoRequest ==
  [op |-> "none", method |-> "", path |-> <<>>, cookie |-> NoCookie, password |-> "",
   outcome |-> "", handler |-> "none", authenticated |-> "absent", at |-> 0]

Answered(op, method, path, cookie, password, outcome, handler, authenticated) ==
  [op |-> op, method |-> method, path |-> path, cookie |-> cookie, password |-> password,
   outcome |-> outcome, handler |-> handler, authenticated |-> authenticated, at |-> wNow]

\* No web request is made
WOff ==
  /\ hasPasswordProtection = FALSE
  /\ hasDatabase = FALSE
  /\ sessions = << >>
  /\ wNow = 0
  /\ wIssued = << >>
  /\ wLoggedOut = {}
  /\ wLast = NoRequest

WInit ==
  /\ hasPasswordProtection \in BOOLEAN
  /\ hasDatabase \in BOOLEAN
  /\ sessions = << >>
  /\ wNow = 0
  /\ wIssued = << >>
  /\ wLoggedOut = {}
  /\ wLast = NoRequest

\* POST /api/auth/login
Login(password) ==
  /\ IF ~hasPasswordProtection
     THEN /\ wLast' = Answered("login", "POST", LoginPath, NoCookie, password,
                               "200", "login", "absent")
          /\ UNCHANGED <<sessions, wIssued>>
     ELSE IF password = APP_PASSWORD
          THEN \E token \in Tokens \ DOMAIN wIssued :
                 /\ sessions' = MapSet(sessions, token, [created |-> wNow])
                 /\ wIssued' = MapSet(wIssued, token, wNow)
                 /\ wLast' = Answered("login", "POST", LoginPath, token, password,
                                      "200", "login", "absent")
          ELSE /\ wLast' = Answered("login", "POST", LoginPath, NoCookie, password,
                                    "401", "login", "absent")
               /\ UNCHANGED <<sessions, wIssued>>
  /\ UNCHANGED <<hasPasswordProtection, hasDatabase, wNow, wLoggedOut,
                 hasOpenAI, nvars, pvars, gvars, fvars>>

\* POST /api/auth/logout
Logout(cookie) ==
  /\ sessions' = IF cookie # NoCookie THEN MapDelete(sessions, cookie) ELSE sessions
  /\ wLoggedOut' = IF cookie \in DOMAIN wIssued THEN wLoggedOut \cup {cookie} ELSE wLoggedOut
  /\ wLast' = Answered("logout", "POST", <<"api", "auth", "logout">>, cookie, "",
                       "200", "logout", "absent")
  /\ UNCHANGED <<hasPasswordProtection, hasDatabase, wNow, wIssued,
                 hasOpenAI, nvars, pvars, gvars, fvars>>

\* GET /api/auth/status: authenticated is the value of
\* sessionToken && sessions.has(sessionToken), left out of the JSON when
\* it is undefined
AuthStatus(cookie) ==
  /\ wLast' = Answered("status", "GET", <<"api", "auth", "status">>, cookie, "",
                       "200", "authStatus",
                       IF ~hasPasswordProtection THEN "true"
                       ELSE IF cookie = NoCookie THEN "absent"
                       ELSE IF cookie \in DOMAIN sessions THEN "true"
                       ELSE "false")
  /\ UNCHANGED <<hasPasswordProtection, hasDatabase, sessions, wNow, wIssued, wLoggedOut,
                 hasOpenAI, nvars, pvars, gvars, fvars>>

\* GET /login.html: the page is sent without any check
LoginPage(cookie) ==
  /\ wLast' = Answered("page", "GET", LoginPagePath, cookie, "", "200", "loginPage", "absent")
  /\ UNCHANGED <<hasPasswordProtection, hasDatabase, sessions, wNow, wIssued, wLoggedOut,
                 hasOpenAI, nvars, pvars, gvars, fvars>>

\* Any request that no route before app.use(requireAuth) takes: it passes
\* requireAuth and, when admitted, goes to the first matching later route.
Protected(method, path, cookie) ==
  /\ FirstMatch(EarlyRoutes, method, path) = "none"
  /\ LET auth == RequireAuth(path, cookie)
         handler == IF auth = "next"
                    THEN FirstMatch(LateRoutes(hasDatabase), method, path)
                    ELSE "none"
     IN wLast' = Answered("protected", method, path, cookie, "",
                          IF auth # "next" THEN auth
                          ELSE IF handler = "none" THEN "404" ELSE "handled",
                          handler, "absent")
  /\ sessions' = SessionsAfterAuth(path, cookie)
  /\ UNCHANGED <<hasPasswordProtection, hasDatabase, wNow, wIssued, wLoggedOut,
                 hasOpenAI, nvars, pvars, gvars, fvars>>

\* Time passes.
WebTick ==
  /\ wNow < MaxWebTicks * ClockStep
  /\ wNow' = wNow + ClockStep
  /\ UNCHANGED <<hasPasswordProtection, hasDatabase, sessions, wIssued, wLoggedOut, wLast,
                 hasOpenAI, nvars, pvars, gvars, fvars>>

WNext ==
  \/ \E password \in Passwords : Login(password)
  \/ \E cookie \in Cookies : Logout(cookie)
  \/ \E cookie \in Cookies : AuthStatus(cookie)
  \/ \E cookie \in Cookies : LoginPage(cookie)
  \/ \E method \in Methods, path \in WebPaths, cookie \in Cookies :
       Protected(method, path, cookie)
  \/ WebTick

InitWeb == hasOpenAI = TRUE /\ NOff /\ POff /\ GOff /\ FOff /\ WInit

SpecWeb == InitWeb /\ [][WNext]_vars

InitNegotiate == hasOpenAI = TRUE /\ NInit /\ POff /\ GOff /\ FOff /\ WOff

SpecNegotiate == InitNegotiate /\ [][NNext]_vars

InitPoll == hasOpenAI \in BOOLEAN /\ NOff /\ PInit /\ GOff /\ FOff /\ WOff

InitGenerate == hasOpenAI \in BOOLEAN /\ NOff /\ POff /\ GInit /\ FOff /\ WOff

SpecGenerate == InitGenerate /\ [][GNext]_vars

\* One request with a wide choice of supplied sizes and of images
WideSizes ==
  {NoSize, <<"">>, <<"bogus">>, <<"0", "1280">>, <<"720", "bogus">>, <<"-720", "1280">>,
   <<"720", "1280", "5">>, <<"3", "4">>, <<"1100", "1000">>, <<"1920", "1080">>,
   <<"1024", "1792">>, <<"1792", "1024">>}

WideImages ==
  {[w |-> d[1], h |-> d[2], ok |-> TRUE] :
     d \in {<<720, 1280>>, <<1280, 720>>, <<1024, 1792>>, <<1792, 1024>>,
            <<1000, 1100>>, <<1920, 1080>>, <<1024, 1024>>, <<720, 1080>>,
            <<3, 4>>}}
    \cup {[w |-> 0, h |-> 0, ok |-> FALSE]}

GenInputsWide ==
  [file : BOOLEAN, imageUrl : BOOLEAN, size : WideSizes, img : WideImages]

GInitOne ==
  /\ clock = 1
  /\ disk = << >>
  /\ gPending = {}
  /\ gPc = [r \in GenReqs |-> IF r = "g1" THEN "new" ELSE "off"]
  /\ gIn = [r \in GenReqs |-> NoInput]
  /\ gLocal = [r \in GenReqs |-> NoLocal]
  /\ gDeletes = [r \in GenReqs |-> <<>>]
  /\ gSent = [r \in GenReqs |-> <<>>]
  /\ gReply = [r \in GenReqs |-> <<>>]
  /\ gResp = [r \in GenReqs |-> <<>>]

GNextOneOf(inputs) ==
  \/ \E in \in inputs : GenerateStart("g1", in)
  \/ \E fetched \in BOOLEAN, ext \in Exts, written \in BOOLEAN, left \in BOOLEAN :
       FetchDone("g1", fetched, ext, written, left)
  \/ MetadataDone("g1")
  \/ \E wrote \in BOOLEAN, left \in BOOLEAN : ResizeDone("g1", wrote, left)
  \/ \E ok \in BOOLEAN : SubmitDone("g1", ok)
  \/ \E u \in gPending : UnlinkDone(u)
  \/ Tick

GNextOne == GNextOneOf(GenInputsWide)

\* One submission, one download and one remix, interleaved
ForwardNext == GNextOneOf(GenInputs) \/ FNext

InitForward == hasOpenAI \in BOOLEAN /\ NOff /\ POff /\ GInitOne /\ FInit /\ WOff

SpecForward == InitForward /\ [][ForwardNext]_vars

InitGenerateOne == hasOpenAI \in BOOLEAN /\ NOff /\ POff /\ GInitOne /\ FOff /\ WOff

SpecGenerateOne == InitGenerateOne /\ [][GNextOne]_vars

\* The server runs with OPENAI_API_KEY set
InitGenerateConfigured == hasOpenAI = TRUE /\ NOff /\ POff /\ GInit /\ FOff /\ WOff

SpecGenerateConfigured == InitGenerateConfigured /\ [][GNext]_vars

SpecPoll == InitPoll /\ [][PNext]_vars

\* Two poll calls, started in any order and interleaved in any way, the
\* second possibly after the first has ended
PairOutcomes ==
  {o \in Outcomes :
     \/ o.kind = "ok" /\ o.body = "json"
     \/ o.kind = "http" /\ o.status \in {404, 503}
     \/ o.kind = "net" /\ o.code \in {"ECONNRESET", "ENOTFOUND"}}

PInitPair ==
  /\ pPc = [c \in PollCalls |-> "idle"]
  /\ pAttempt = [c \in PollCalls |-> 0]
  /\ pLastError = [c \in PollCalls |-> NoError]
  /\ pTrace = [c \in PollCalls |-> <<>>]
  /\ pResp = [c \in PollCalls |-> <<>>]

PNextPair ==
  \/ \E c \in PollCalls : PollStart(c)
  \/ \E c \in PollCalls, o \in PairOutcomes : RemoteReply(c, o)
  \/ \E c \in PollCalls : SleepDone(c)

InitPollPair == hasOpenAI \in BOOLEAN /\ NOff /\ PInitPair /\ GOff /\ FOff /\ WOff

SpecPollPair == InitPollPair /\ [][PNextPair]_vars

\* Every pending fetch settles (with a response or an error) and every
\* timer fires
SpecPollLive == InitPoll /\ [][PNext]_vars /\ WF_vars(PNext)

\* ------------------------------------------------------------------------
\* Claims about size negotiation (checked under SpecNegotiate)
\* ------------------------------------------------------------------------

\* A "WxH" string with two positive numbers
WellFormedSize(size) ==
  /\ Len(size) = 2
  /\ ~NumberOf(size[1]).nan /\ NumberOf(size[1]).val > 0
  /\ ~NumberOf(size[2]).nan /\ NumberOf(size[2]).val > 0

\* portrait iff height > width
SizeIsPortrait(size) == NumberOf(size[2]).val > NumberOf(size[1]).val

\* The catalog entries with the orientation of the request
SameOrientation(size) ==
  {i \in 1..Len(VALID_SORA_SIZES) :
     (VALID_SORA_SIZES[i].height > VALID_SORA_SIZES[i].width) <=> SizeIsPortrait(size)}

RECURSIVE Gcd(_, _)
Gcd(a, b) == IF b = 0 THEN a ELSE Gcd(b, a % b)

\* |w/h - cw/ch| scaled by h, as a rational: cw/ch is the entry's own
\* width/height in lowest terms
TrueRatioDiff(size, i) ==
  LET g == Gcd(VALID_SORA_SIZES[i].width, VALID_SORA_SIZES[i].height)
      cw == VALID_SORA_SIZES[i].width \div g
      ch == VALID_SORA_SIZES[i].height \div g
  IN [n |-> Abs(NumberOf(size[1]).val * ch - cw * NumberOf(size[2]).val),
      d |-> ch]

\* C7: for every well-formed request the negotiated size has the
\* orientation of the request (portrait iff height > width).
C7_OrientationPreserved ==
  (nStage # "input" /\ WellFormedSize(nSize))
    => (SizeIsPortrait(nTarget) <=> SizeIsPortrait(nSize))

\* C8: every member of the catalog is mapped to itself.
C8_CatalogFixedPoint ==
  (nStage # "input" /\ nSize \in CatalogNames) => nTarget = nSize

\* C9: among the entries with the request's orientation the result is the
\* one whose width/height is closest to the requested ratio, the first in
\* catalog order on a tie.
C9_ClosestRatioSameOrientation ==
  (nStage # "input" /\ WellFormedSize(nSize))
    => \E i \in SameOrientation(nSize) :
         /\ nTarget = VALID_SORA_SIZES[i].name
         /\ \A j \in SameOrientation(nSize) :
              /\ ~RatLess(TrueRatioDiff(nSize, j), TrueRatioDiff(nSize, i))
              /\ (j < i => RatLess(TrueRatioDiff(nSize, i), TrueRatioDiff(nSize, j)))

\* C10: the requested size 2560x1440 is mapped to 1792x1024.
C10_WideMapsToWideLandscape ==
  (nStage # "input" /\ nSize = <<"2560", "1440">>) => nTarget = <<"1792", "1024">>

\* ------------------------------------------------------------------------
\* Claims about the status poller (checked under SpecPoll)
\* ------------------------------------------------------------------------

\* The positions of pTrace[c] holding a remote reply
Replies(c) == {i \in 1..Len(pTrace[c]) : pTrace[c][i].ev = "reply"}

\* A non-success HTTP status other than 500, 502, 503
IsOtherHttpError(o) == o.kind = "http" /\ o.status \notin {500, 502, 503}

\* Transient: HTTP 500/502/503 or a network reset/timeout
IsTransient(o) ==
  \/ o.kind = "http" /\ o.status \in {500, 502, 503}
  \/ o.kind = "net" /\ o.code \in {"ECONNRESET", "ETIMEDOUT"}

\* C1: a reply with a non-success status other than 500, 502, 503 ends the
\* remote attempts of the call: no retry and no sleep follows it.
C1_OtherStatusSingleAttempt ==
  \A c \in PollCalls : \A i \in Replies(c) :
    IsOtherHttpError(pTrace[c][i].o) => i = Len(pTrace[c])

\* C2: a failure response carries retryable: true iff the reply that ended
\* the call was transient; other statuses and malformed bodies end with
\* retryable absent or false.
C2_RetryableIffTransient ==
  \A c \in PollCalls :
    (pPc[c] = "done" /\ Len(pResp[c]) > 0 /\ pResp[c][1].status # 200)
      => (pResp[c][1].retryable = "true"
            <=> (Len(pTrace[c]) > 0 /\ IsTransient(pTrace[c][Len(pTrace[c])].o)))

\* C3: a 500, 502 or 503 reply on attempt n < maxRetries, whatever its
\* body, is followed by a sleep of n * 1000 ms before the next attempt.
C3_ServerErrorBackoff ==
  \A c \in PollCalls : \A i \in Replies(c) :
    LET e == pTrace[c][i]
    IN (e.o.kind = "http" /\ e.o.status \in {500, 502, 503} /\ e.n < maxRetries)
         => /\ Len(pTrace[c]) > i
            /\ pTrace[c][i + 1] = SleepEv(e.n, 1000 * e.n)

\* ------------------------------------------------------------------------
\* Claims about the temporary files of POST /api/generate
\* (checked under SpecGenerate)
\* ------------------------------------------------------------------------

\* The temporary paths of request r: the uploaded original, the
\* URL-fetched copy and the resized derivative
TempPaths(r) ==
  ((IF gIn[r].file THEN {UploadPath(r)} ELSE {})
     \cup {gLocal[r].tempImagePath, gLocal[r].processedImagePath}) \ {NoPath}

\* The temporary files request r has created: the upload stored by multer,
\* the fetched copy once writeFileSync has returned, the resized derivative
\* once toFile has resolved (the creation request is sent right after)
CreatedPaths(r) ==
  (IF gIn[r].file THEN {UploadPath(r)} ELSE {})
    \cup (IF gLocal[r].tempImagePath # NoPath
             /\ gLocal[r].imagePath = gLocal[r].tempImagePath
          THEN {gLocal[r].tempImagePath} ELSE {})
    \cup (IF gLocal[r].processedImagePath # NoPath
             /\ gLocal[r].processedImagePath # gLocal[r].imagePath
             /\ gSent[r] # <<>>
          THEN {gLocal[r].processedImagePath} ELSE {})

\* The handler of r is between its arrival and its response
InFlight(r) == gPc[r] \in {"fetching", "metadata", "resizing", "submitting"}

\* This step sends the response of r
Responds(r) == gPc[r] # "done" /\ gPc'[r] = "done"

\* C4: on every exit path, each temporary file that exists for the request
\* has had a deletion issued for it when the handler ends.
C4_EveryExitIssuesDeletion ==
  [][\A r \in GenReqs :
       Responds(r) =>
         \A q \in CreatedPaths(r)' \cap DOMAIN disk' : q \in SeqRange(gDeletes'[r])]_vars

\* C5: two requests in flight never use the same temporary path.
C5_NoSharedTempPath ==
  \A r1, r2 \in GenReqs :
    (r1 # r2 /\ InFlight(r1) /\ InFlight(r2))
      => TempPaths(r1) \cap TempPaths(r2) = {}

IsGet(e) == e.ev = "get"

IsReply(e) == e.ev = "reply"

IsSleep(e) == e.ev = "sleep"

\* The number of remote status GETs call c has issued
NumGets(c) == Len(SelectSeq(pTrace[c], IsGet))

\* The outcomes call c has received, in order
ReplySeq(c) == LET q == SelectSeq(pTrace[c], IsReply) IN [i \in 1..Len(q) |-> q[i].o]

\* The delays call c has slept, in order
SleepSeq(c) == LET q == SelectSeq(pTrace[c], IsSleep) IN [i \in 1..Len(q) |-> q[i].ms]

RECURSIVE SumSeq(_)
SumSeq(q) == IF q = <<>> THEN 0 ELSE Head(q) + SumSeq(Tail(q))

Is503(o) == o.kind = "http" /\ o.status = 503

\* C11: a call that gets 503 on every attempt makes exactly 3 remote GETs
\* and ends with a failure response marked retryable: true.
C11_Three503ThenRetryable ==
  \A c \in PollCalls :
    (ReplySeq(c) # <<>> /\ \A i \in 1..Len(ReplySeq(c)) : Is503(ReplySeq(c)[i]))
      => /\ NumGets(c) <= 3
         /\ (pPc[c] = "done" <=> Len(ReplySeq(c)) = 3)
         /\ (pPc[c] = "done"
               => /\ NumGets(c) = 3
                  /\ Len(pResp[c]) = 1
                  /\ pResp[c][1].status = 500
                  /\ pResp[c][1].retryable = "true")

\* C11 witness: three 503 replies, the call has ended
C11_Witness ==
  /\ pPc["p1"] = "done"
  /\ Len(ReplySeq("p1")) = 3
  /\ \A i \in 1..3 : Is503(ReplySeq("p1")[i])

\* C12: 503, 503 and then 200 give the job status after exactly 3 attempts
\* with exactly two sleeps, of 1000 ms and then 2000 ms.
C12_TwoFailuresThenSuccess ==
  \A c \in PollCalls :
    (/\ Len(ReplySeq(c)) = 3
     /\ Is503(ReplySeq(c)[1]) /\ Is503(ReplySeq(c)[2])
     /\ ReplySeq(c)[3].kind = "ok" /\ ReplySeq(c)[3].body = "json")
      => /\ pPc[c] = "done"
         /\ NumGets(c) = 3
         /\ Len(pResp[c]) = 1 /\ pResp[c][1].status = 200
         /\ SleepSeq(c) = <<1000, 2000>>

IsResetOrTimeout(o) == o.kind = "net" /\ o.code \in {"ECONNRESET", "ETIMEDOUT"}

\* C13: a network reset or timeout on attempt n < maxRetries is followed
\* by a sleep of n * 1000 ms and then by attempt n + 1; on the last attempt
\* it ends the call with a failure response marked retryable: true.
C13_NetworkErrorBackoff ==
  \A c \in PollCalls : \A i \in Replies(c) :
    LET e == pTrace[c][i]
    IN IsResetOrTimeout(e.o)
         => IF e.n < maxRetries
            THEN /\ Len(pTrace[c]) > i
                 /\ pTrace[c][i + 1] = SleepEv(e.n, 1000 * e.n)
                 /\ IF Len(pTrace[c]) = i + 1
                    THEN pPc[c] = "sleeping"
                    ELSE pTrace[c][i + 2] = GetEv(e.n + 1)
            ELSE /\ i = Len(pTrace[c])
                 /\ pPc[c] = "done"
                 /\ Len(pResp[c]) = 1
                 /\ pResp[c][1].status = 500
                 /\ pResp[c][1].retryable = "true"

\* C13 witness: a timeout on attempt 1 was slept on and retried, and a
\* reset on the last attempt ended the call
C13_Witness ==
  /\ pPc["p1"] = "done"
  /\ Len(ReplySeq("p1")) = 3
  /\ ReplySeq("p1")[1].code = "ETIMEDOUT"
  /\ ReplySeq("p1")[3].code = "ECONNRESET"
  /\ SleepSeq("p1")[1] = 1000

\* The bounds of one poll call: at most 3 GETs, at most 3 * 3 * 1000 ms
\* of sleep, at most one response
PollBounded(c) ==
  /\ NumGets(c) <= 3
  /\ SumSeq(SleepSeq(c)) <= 3 * 3 * 1000
  /\ Len(pResp[c]) <= 1
  /\ (pPc[c] = "done" <=> Len(pResp[c]) = 1)

\* C14: whatever the remote outcomes, a poll call issues at most 3 GETs,
\* sleeps at most 9000 ms in total and ends with a response.
C14_BoundedAndTerminates ==
  /\ [](PollBounded("p1"))
  /\ <>(pPc["p1"] = "done")

\* C14 witness: the longest call, three GETs and 3000 ms of sleep
C14_Witness ==
  /\ pPc["p1"] = "done"
  /\ NumGets("p1") = 3
  /\ SumSeq(SleepSeq("p1")) = 3000

\* The events of one call follow the loop of that call alone: the first
\* event is GET 1, each reply answers the GET just before it, each sleep
\* follows the reply of its attempt, and each later GET n + 1 follows the
\* reply or the sleep of attempt n.
OwnProtocol(c) ==
  LET t == pTrace[c]
  IN /\ (t # <<>> => t[1] = GetEv(1))
     /\ \A i \in 2..Len(t) :
          CASE t[i].ev = "get" ->
                 /\ t[i - 1].ev \in {"reply", "sleep"}
                 /\ t[i].n = t[i - 1].n + 1
            [] t[i].ev = "reply" -> t[i - 1] = GetEv(t[i].n)
            [] OTHER ->
                 /\ t[i - 1].ev = "reply"
                 /\ t[i] = SleepEv(t[i - 1].n, 1000 * t[i - 1].n)

\* C15: whatever other poll calls did before or do meanwhile, a call starts
\* at attempt 1, its attempts are strictly sequential and numbered 1, 2, 3
\* by its own count, and a call that ends in the catch block has used all
\* 3 attempts.
C15_CallsIndependent ==
  \A c \in PollCalls :
    /\ OwnProtocol(c)
    /\ NumGets(c) <= maxRetries
    /\ (pPc[c] \in {"fetching", "sleeping"} => pAttempt[c] = NumGets(c))
    /\ (pPc[c] = "idle" => pTrace[c] = <<>>)
    /\ \A i \in 1..Len(pResp[c]) : pResp[c][i].via = "catch" => NumGets(c) = maxRetries

\* C15 witness: both calls are in flight at once, one waiting for its third
\* reply while the other sleeps after its second
C15_Witness ==
  /\ pPc["p1"] = "fetching"
  /\ NumGets("p1") = 3
  /\ pPc["p2"] = "sleeping"
  /\ NumGets("p2") = 2

\* ------------------------------------------------------------------------
\* Claims about the submission path (checked under SpecGenerateOne)
\* ------------------------------------------------------------------------

\* C16: the size field of every creation request sent to the remote is one
\* of the four catalog sizes, whatever size the caller supplied and
\* whatever the dimensions of the image.
C16_SentSizeInCatalog ==
  \A r \in GenReqs : \A i \in 1..Len(gSent[r]) : gSent[r][i].size \in CatalogNames

\* C16 witness: a creation request was sent for a request that supplied a
\* size outside the catalog
C16_Witness ==
  /\ gIn["g1"].size = <<"1920", "1080">>
  /\ gSent["g1"] # <<>>

\* ------------------------------------------------------------------------
\* Further claims about size negotiation (checked under SpecNegotiate)
\* ------------------------------------------------------------------------

\* A piece that is written as a decimal numeral
IsNumeral(piece) == \E n \in Numerals : ToString(n) = piece

\* A size string with a non-numeric part or a missing or zero width or height
Malformed(size) ==
  \/ Len(size) < 2
  \/ \E i \in 1..2 : ~IsNumeral(size[i]) \/ size[i] = "0"

\* C17: for every input string the negotiator returns one of the four
\* catalog sizes, and for a malformed string (a non-numeric part, a missing
\* or zero width or height) it returns the default portrait entry 720x1280.
C17_TotalWithDefault ==
  nStage \in {"mapped", "remapped"} =>
    /\ nTarget \in CatalogNames
    /\ Malformed(nSize) => nTarget = <<"720", "1280">>

\* C17 witness: a string with a non-numeric width has been mapped
C17_Witness ==
  /\ nStage = "mapped"
  /\ nSize = <<"bogus", "1280">>
  /\ nTarget = <<"720", "1280">>

\* C18: '1080x1920' maps to 720x1280, '1920x1080' to 1280x720, '1024x1024'
\* to 720x1280 and 'bogus' to 720x1280.
C18_DocumentedExamples ==
  nStage \in {"mapped", "remapped"} =>
    /\ nSize = <<"1080", "1920">> => nTarget = <<"720", "1280">>
    /\ nSize = <<"1920", "1080">> => nTarget = <<"1280", "720">>
    /\ nSize = <<"1024", "1024">> => nTarget = <<"720", "1280">>
    /\ nSize = <<"bogus">> => nTarget = <<"720", "1280">>

\* C18 witness: the square example has been mapped
C18_Witness ==
  /\ nStage = "mapped"
  /\ nSize = <<"1024", "1024">>
  /\ nTarget = <<"720", "1280">>

\* ------------------------------------------------------------------------
\* Claims about remote requests outside the poller (checked under
\* SpecForward)
\* ------------------------------------------------------------------------

\* C19: a submission, a remix and a download each send at most one request
\* to their remote endpoint, and once that request has come back without
\* success the call has ended with an error response to the caller and
\* without a further remote request.
C19_SingleRemoteRequest ==
  /\ \A r \in GenReqs :
       /\ Len(gSent[r]) <= 1
       /\ (gReply[r] # <<>> /\ gReply[r][1] = "failed") =>
            /\ gPc[r] = "done"
            /\ Len(gReply[r]) = 1
            /\ gResp[r] = <<[status |-> 500]>>
  /\ \A c \in FwdCalls :
       /\ Len(fSent[c]) <= 1
       /\ (fReply[c] # <<>> /\ fReply[c][1].kind # "ok") =>
            /\ fPc[c] = "done"
            /\ Len(fReply[c]) = 1
            /\ Len(fResp[c]) = 1
            /\ fResp[c][1].body = "error"
            /\ fResp[c][1].status = 500

\* C19 witness: all three calls have got a failure from the remote
C19_Witness ==
  /\ gReply["g1"] = <<"failed">>
  /\ fReply["d1"] # <<>> /\ fReply["d1"][1].kind = "http"
  /\ fReply["x1"] # <<>> /\ fReply["x1"][1].kind = "network"

\* ------------------------------------------------------------------------
\* Further claims about temporary files (checked under SpecGenerate)
\* ------------------------------------------------------------------------

\* C20: within one request no path is handed to fs.unlink twice, on any
\* exit path; when no resize happened the source path is unlinked once.
C20_NoDoubleDelete ==
  \A r \in GenReqs :
    /\ \A i, j \in 1..Len(gDeletes[r]) : gDeletes[r][i] = gDeletes[r][j] => i = j
    /\ (gPc[r] = "done" /\ gLocal[r].processedImagePath # NoPath
          /\ gLocal[r].processedImagePath = gLocal[r].imagePath) =>
         Cardinality({i \in 1..Len(gDeletes[r]) :
                        gDeletes[r][i] = gLocal[r].imagePath}) = 1

\* C20 witness: a request that needed no resize has succeeded and has
\* unlinked its source file
C20_Witness ==
  /\ gPc["g1"] = "done"
  /\ gResp["g1"] = <<[status |-> 200]>>
  /\ gLocal["g1"].processedImagePath = gLocal["g1"].imagePath
  /\ gLocal["g1"].imagePath # NoPath
  /\ gDeletes["g1"] = <<gLocal["g1"].imagePath>>

\* ------------------------------------------------------------------------
\* Claims about image preparation (checked under SpecGenerateOne)
\* ------------------------------------------------------------------------

\* The decoded dimensions of the source differ from the negotiated target
DimsDiffer(r) ==
  \/ gLocal[r].imageWidth # NumberOf(gLocal[r].targetSize[1]).val
  \/ gLocal[r].imageHeight # NumberOf(gLocal[r].targetSize[2]).val

\* The files the request has on disk besides its source image
ExtraFiles(r) == DOMAIN disk \ {gLocal[r].imagePath}

\* C21: when a request reaches the submission, a resized derivative with
\* the target dimensions has been created if and only if the decoded
\* source dimensions differ from the negotiated target; when they are
\* equal the source file itself is submitted and no other file exists.
C21_ResizeIffDimsDiffer ==
  \A r \in GenReqs :
    gPc[r] = "submitting" =>
      LET loc == gLocal[r]
      IN /\ DimsDiffer(r) <=>
              /\ loc.processedImagePath # loc.imagePath
              /\ ExtraFiles(r) = {loc.processedImagePath}
         /\ DimsDiffer(r) =>
              /\ disk[loc.processedImagePath].w = NumberOf(loc.targetSize[1]).val
              /\ disk[loc.processedImagePath].h = NumberOf(loc.targetSize[2]).val
         /\ ~DimsDiffer(r) =>
              /\ loc.processedImagePath = loc.imagePath
              /\ ExtraFiles(r) = {}

\* C21 witness: an image that differs from the target in its height only
\* has been resized and is being submitted
C21_Witness ==
  /\ gPc["g1"] = "submitting"
  /\ gLocal["g1"].imageWidth = 720
  /\ gLocal["g1"].imageHeight = 1080
  /\ gLocal["g1"].targetSize = <<"720", "1280">>
  /\ gLocal["g1"].processedImagePath # gLocal["g1"].imagePath

\* ------------------------------------------------------------------------
\* Claims about failures inside POST /api/generate (checked under
\* SpecGenerateOne)
\* ------------------------------------------------------------------------

\* The handler has ended after sharp could not read the source image
UnreadableSourceEnded(r) ==
  /\ gPc[r] = "done"
  /\ gLocal[r].imagePath # NoPath
  /\ ~gIn[r].img.ok

\* C22: a request whose source image cannot be decoded is answered with a
\* 400 and sends no creation request.
C22_UnreadableImageIs400 ==
  \A r \in GenReqs :
    UnreadableSourceEnded(r) =>
      /\ gResp[r] = <<[status |-> 400]>>
      /\ gSent[r] = <<>>

\* The handler has ended after fs.writeFileSync of the URL-fetched copy
\* threw: tempImagePath is assigned, imagePath is not
FetchedWriteFailedEnded(r) ==
  /\ gPc[r] = "done"
  /\ gLocal[r].tempImagePath # NoPath
  /\ gLocal[r].imagePath = NoPath

\* The handler has ended after toFile of the resized derivative failed on
\* a readable source: a derivative path was chosen, nothing was submitted
ResizeWriteFailedEnded(r) ==
  /\ gPc[r] = "done"
  /\ gIn[r].img.ok
  /\ gLocal[r].processedImagePath # NoPath
  /\ gLocal[r].processedImagePath # gLocal[r].imagePath
  /\ gSent[r] = <<>>

\* C23: a request that hit a local write failure, of the URL-fetched copy
\* or of the resized derivative, is answered with a single 500.
C23_WriteFailureIs500 ==
  \A r \in GenReqs :
    (FetchedWriteFailedEnded(r) \/ ResizeWriteFailedEnded(r)) =>
      gResp[r] = <<[status |-> 500]>>

\* ------------------------------------------------------------------------
\* Claims about validation and download (checked under SpecForward)
\* ------------------------------------------------------------------------

\* A remix call without a parent video id or without a prompt has ended
MissingRemixInput(c) ==
  /\ c \in RemixCalls
  /\ fPc[c] = "done"
  /\ fIn[c].videoId = NoField \/ fIn[c].prompt = NoField

\* A submission with neither an image file nor an image URL has ended
MissingGenerateInput(r) ==
  /\ gPc[r] = "done"
  /\ ~gIn[r].file
  /\ ~gIn[r].imageUrl

\* C24 as stated: a request with a missing required input is answered with
\* a 400 and no remote call is made for it.
C24_MissingInputIs400 ==
  /\ \A c \in FwdCalls :
       MissingRemixInput(c) =>
         /\ fSent[c] = <<>>
         /\ Len(fResp[c]) = 1
         /\ fResp[c][1].status = 400
  /\ \A r \in GenReqs :
       MissingGenerateInput(r) =>
         /\ gSent[r] = <<>>
         /\ gResp[r] = <<[status |-> 400]>>

\* C24 amended: no remote call is made for a request with a missing
\* required input; it is answered with a 400 when the API key is
\* configured and with the 503 of the configuration test when it is not.
C24_MissingInputIs400WhenConfigured ==
  /\ \A c \in FwdCalls :
       MissingRemixInput(c) =>
         /\ fSent[c] = <<>>
         /\ Len(fResp[c]) = 1
         /\ fResp[c][1].status = IF hasOpenAI THEN 400 ELSE 503
  /\ \A r \in GenReqs :
       MissingGenerateInput(r) =>
         /\ gSent[r] = <<>>
         /\ gResp[r] = <<[status |-> IF hasOpenAI THEN 400 ELSE 503]>>

\* C24 witness: with the key configured, a remix without a prompt and a
\* submission without an image have both been refused
C24_Witness ==
  /\ hasOpenAI
  /\ fPc["x1"] = "done"
  /\ fIn["x1"].videoId = "video_1"
  /\ fIn["x1"].prompt = NoField
  /\ fResp["x1"] = <<ErrorResponse(400, NoDetails)>>
  /\ MissingGenerateInput("g1")
  /\ gResp["g1"] = <<[status |-> 400]>>

\* C25: a download call pipes artifact bytes to the caller only when the
\* content request succeeded, with the upstream content type or video/mp4
\* when the header is absent; after a non-success remote response it sends
\* an error response that carries the upstream status and body text, and
\* no artifact bytes.
C25_DownloadStreamsOnlyOnSuccess ==
  \A c \in DownloadCalls :
    fPc[c] = "done" =>
      /\ Len(fResp[c]) = 1
      /\ fResp[c][1].body = "artifact" <=>
           (fReply[c] # <<>> /\ fReply[c][1].kind = "ok")
      /\ \A i \in 1..Len(fReply[c]) :
           LET reply == fReply[c][i]
               response == fResp[c][1]
           IN /\ reply.kind = "ok" =>
                   response.ctype =
                     IF reply.ctype = NoField THEN "video/mp4" ELSE reply.ctype
              /\ reply.kind = "http" =>
                   /\ response.body = "error"
                   /\ response.upstream.status = reply.status
                   /\ response.upstream.text = reply.text

\* C25 witness: a download whose upstream response had no content-type
\* header has been piped to the caller
C25_Witness ==
  /\ fPc["d1"] = "done"
  /\ fReply["d1"] # <<>>
  /\ fReply["d1"][1].kind = "ok"
  /\ fReply["d1"][1].ctype = NoField
  /\ fResp["d1"][1].body = "artifact"

\* ------------------------------------------------------------------------
\* Responses of the poller (checked under SpecPollLive)
\* ------------------------------------------------------------------------

\* C26: for every sequence of remote outcomes a poll call sends exactly one
\* response: never two, eventually one, and never the fallback response
\* placed after the retry loop.
C26_ExactlyOneResponse ==
  /\ [](/\ Len(pResp["p1"]) <= 1
        /\ \A i \in 1..Len(pResp["p1"]) : pResp["p1"][i].via # "fallback")
  /\ <>[](Len(pResp["p1"]) = 1)

\* C26 witness: a call has ended in the catch block of its third attempt
\* after a server error whose body was JSON
C26_Witness ==
  /\ pPc["p1"] = "done"
  /\ Len(pResp["p1"]) = 1
  /\ pResp["p1"][1].via = "catch"
  /\ Len(ReplySeq("p1")) = 3
  /\ ReplySeq("p1")[3].kind = "http"
  /\ ReplySeq("p1")[3].body = "json"
  /\ ReplySeq("p1")[3].status = 502

\* ------------------------------------------------------------------------
\* The size sent with the image (checked under SpecGenerateOne)
\* ------------------------------------------------------------------------

\* C27: every creation request carries a size equal to the pixel
\* dimensions of the image file it sends, which is the target chosen by
\* the handler: the second mapping inside callOpenAIVideoCreate does not
\* change it.
C27_SentSizeMatchesImage ==
  \A r \in GenReqs :
    \A i \in 1..Len(gSent[r]) :
      /\ gSent[r][i].size = SizeString(gSent[r][i].w, gSent[r][i].h)
      /\ gSent[r][i].size = gLocal[r].targetSize

\* C27 witness: a landscape image has been resized and submitted with the
\* landscape target as its size
C27_Witness ==
  /\ gSent["g1"] # <<>>
  /\ gIn["g1"].img.w = 1920
  /\ gIn["g1"].img.h = 1080
  /\ gSent["g1"][1].size = <<"1280", "720">>
  /\ gSent["g1"][1].w = 1280

\* ------------------------------------------------------------------------
\* Claims about password protection and routing (checked under SpecWeb)
\* ------------------------------------------------------------------------

\* The step is a request that requireAuth let through to a protected route
AdmittedStep ==
  /\ wLast' # wLast
  /\ wLast'.op = "protected"
  /\ wLast'.outcome \notin {"401", "redirect"}
  /\ wLast'.path \notin {LoginPath, LoginPagePath}

\* C28: with password protection enabled, requireAuth admits a request to
\* a protected route only if its cookie holds a token that a successful
\* login issued, that no logout has been given since, and that is less
\* than 24 hours old; and only a login with the right password adds a
\* session to the store.
C28_AdmitsOnlyLiveSessions ==
  [][hasPasswordProtection =>
       /\ AdmittedStep =>
            /\ wLast'.cookie \in DOMAIN wIssued
            /\ wLast'.cookie \notin wLoggedOut
            /\ wNow - wIssued[wLast'.cookie] < SessionTtl
       /\ \/ DOMAIN sessions' \subseteq DOMAIN sessions
          \/ wLast'.op = "login" /\ wLast'.password = APP_PASSWORD]_vars

\* C28 witness: a request with a token issued half a day earlier has been
\* admitted to POST /api/generate
C28_Witness ==
  /\ hasPasswordProtection
  /\ wLast.op = "protected"
  /\ wLast.handler = "generate"
  /\ wLast.cookie \in DOMAIN wIssued
  /\ wLast.at = wIssued[wLast.cookie] + ClockStep

\* C29: with password protection enabled, GET /api/auth/status answers
\* authenticated: true only for a cookie that requireAuth would admit at
\* that moment: its token is in the store and less than 24 hours old.
C29_StatusAgreesWithRequireAuth ==
  [][(/\ hasPasswordProtection
      /\ wLast' # wLast
      /\ wLast'.op = "status"
      /\ wLast'.authenticated = "true") =>
       /\ HasSession(wLast'.cookie)
       /\ SessionFresh(sessions[wLast'.cookie].created, wNow)]_vars

\* C30: with the database enabled, an admitted GET /api/videos/favorites
\* is handled by the favorites handler.
C30_FavoritesReachable ==
  (/\ hasDatabase
   /\ wLast.op = "protected"
   /\ wLast.method = "GET"
   /\ wLast.path = <<"api", "videos", "favorites">>
   /\ wLast.outcome \notin {"401", "redirect"}) =>
    wLast.handler = "favorites"

====
